---------------------------- MODULE Spec2Model ----------------------------
(***************************************************************************)
(* A model of wtforms/fields/core.py: the processing and validation        *)
(* protocol of Field and its numeric subclasses, the repeating FieldList   *)
(* and the nested FormField.                                               *)
(*                                                                         *)
(* Several specifications share the variables, one per area under study:   *)
(*   Spec             scalar fields of every numeric type                  *)
(*   SpecChain        validator chains and pre/post hooks                  *)
(*   SpecSelect       SelectField and SelectMultipleField                  *)
(*   SpecFilters      chains of filters                                    *)
(*   SpecCoercion     what a failed coercion leaves in data                *)
(*   SpecBoolean      BooleanField                                         *)
(*   SpecList         FieldList.process                                    *)
(*   SpecIndices      the keys of a submission a FieldList reads           *)
(*   SpecEntries      process, append_entry, pop_entry                     *)
(*   SpecListValidate FieldList.validate                                   *)
(*   SpecRevalidate   validate() called again                              *)
(*   SpecFormField    FormField (process, populate_obj)                    *)
(* Every method call is one atomic action (the library is synchronous and  *)
(* single-threaded).  The variable `last` is a log of the most recent      *)
(* call: what it was given, what it invoked, and how it ended.             *)
(***************************************************************************)
EXTENDS Integers, Sequences, FiniteSets, TLC

VARIABLES
    field,      \* the scalar Field under study (configuration and runtime state)
    fieldlist,  \* the FieldList under study
    formfield,  \* the FormField under study
    target,     \* the objects populate_obj reads and writes
    last,       \* log of the most recent call
    assigned    \* the indices FieldList._add_entry has assigned since the
                \* latest process() call began

vars == <<field, fieldlist, formfield, target, last, assigned>>

---------------------------------------------------------------------------
(* Bounds of the exploration *)

\* longest `validators` sequence a field is constructed with
MaxValidators == 2
\* longest `extra_validators` sequence passed to validate()
MaxExtraValidators == 1

SeqsUpTo(S, n) == UNION {[1..k -> S] : k \in 0..n}

---------------------------------------------------------------------------
(* Python values.  A value is a pair <<type tag, payload>>; both are        *)
(* strings, so that any two values can be compared.                        *)

None == <<"NoneType", "">>
unset_value == <<"UnsetValue", "">>
\* the attribute has not been assigned yet
NoAttr == <<"no attribute", "">>
StrV(s) == <<"str", s>>
IntV(s) == <<"int", s>>
FloatV(s) == <<"float", s>>
DecimalV(s) == <<"Decimal", s>>
\* some object that no numeric constructor accepts
Opaque == <<"object", "o">>

\* the strings a submission carries in this model
WireStrings == {"7", "1.5", "abc", ""}

\* the result of a call that may raise: ok, the value, the exception's args
Ok(v) == [ok |-> TRUE, v |-> v, exc |-> "", args |-> <<>>]
Raise(exc, args) == [ok |-> FALSE, v |-> None, exc |-> exc, args |-> args]

\* int(x), as Python computes it on the values of the model
PyInt(x) ==
    CASE x[1] = "int" -> Ok(x)
      [] x = StrV("7") -> Ok(IntV("7"))
      [] x[1] = "str" -> Raise("ValueError", <<"invalid literal for int()">>)
      [] x = FloatV("7.0") -> Ok(IntV("7"))
      [] x = FloatV("1.5") -> Ok(IntV("1"))
      [] x = DecimalV("7") -> Ok(IntV("7"))
      [] x = DecimalV("1.5") -> Ok(IntV("1"))
      [] OTHER -> Raise("TypeError", <<"int() argument must be a string or a number">>)

\* float(s) for a submitted string
PyFloat(x) ==
    CASE x = StrV("7") -> Ok(FloatV("7.0"))
      [] x = StrV("1.5") -> Ok(FloatV("1.5"))
      [] x[1] = "str" -> Raise("ValueError", <<"could not convert string to float">>)
      [] x[1] = "float" -> Ok(x)
      [] x = IntV("7") -> Ok(FloatV("7.0"))
      [] OTHER -> Raise("TypeError", <<"float() argument must be a string or a number">>)

\* decimal.Decimal(s) for a submitted string
PyDecimal(x) ==
    CASE x = StrV("7") -> Ok(DecimalV("7"))
      [] x = StrV("1.5") -> Ok(DecimalV("1.5"))
      [] x[1] = "str" -> Raise("InvalidOperation", <<"ConversionSyntax">>)
      [] x[1] = "Decimal" -> Ok(x)
      [] x = IntV("7") -> Ok(DecimalV("7"))
      [] OTHER -> Raise("TypeError", <<"conversion to Decimal is not supported">>)

\* str(x) on the values of the model
PyStr(x) ==
    CASE x = None -> Ok(StrV("None"))
      [] x[1] \in {"str", "int", "float", "Decimal"} -> Ok(StrV(x[2]))
      [] OTHER -> Ok(StrV("<object>"))

\* True and False
BoolV(b) == <<"bool", IF b THEN "True" ELSE "False">>
\* bool(x) on the values of the model
PyBool(x) ==
    CASE x = None -> FALSE
      [] x[1] = "bool" -> x[2] = "True"
      [] x[1] = "str" -> x[2] # ""
      [] x[1] = "int" -> x[2] # "0"
      [] x[1] = "list" -> x[2] # ""
      [] OTHER -> TRUE

\* repr(x) for a string or a number
Repr(x) == IF x[1] = "str" THEN "'" \o x[2] \o "'" ELSE x[2]
\* the reprs of the elements from position i on, separated by commas
RECURSIVE JoinRepr(_, _)
JoinRepr(items, i) ==
    IF i > Len(items) THEN ""
    ELSE IF i = Len(items) THEN Repr(items[i])
    ELSE Repr(items[i]) \o "," \o JoinRepr(items, i + 1)

\* a list of values is a value as well: its payload is the list's repr.
\* The lists of the model hold up to MaxSelected strings and numbers.
MaxSelected == 2
ListElements == {IntV("7"), StrV("7"), StrV("abc"), StrV("1.5")}
ListV(items) == <<"list", JoinRepr(items, 1)>>
IsList(x) == x[1] = "list"
\* the elements of a list
Items(x) ==
    CHOOSE items \in UNION {[1..k -> ListElements] : k \in 0..MaxSelected} :
        ListV(items) = x

\* the `coerce` callables a select field is constructed with
CoerceKinds == {"str", "int"}
\* self.coerce(x)
Coerce(coerce, x) == IF coerce = "int" THEN PyInt(x) ELSE PyStr(x)

---------------------------------------------------------------------------
(* Validators, hooks and filters are callables supplied by the programmer. *)
(* A validator is modelled by what it does when called: it returns, or it  *)
(* raises ValidationError or StopValidation with the given args.           *)

Passes == [raises |-> "", args |-> <<>>]
ValidationError(msg) == [raises |-> "ValidationError", args |-> <<msg>>]
StopValidation(args) == [raises |-> "StopValidation", args |-> args]

ValidatorKinds ==
    { Passes, ValidationError("e1"),
      StopValidation(<<"stop">>), StopValidation(<<>>), StopValidation(<<"">>) }

\* what an overridden pre_validate / post_validate hook may do
PreHooks ==
    { Passes, ValidationError("pre"), StopValidation(<<"prestop">>), StopValidation(<<>>) }
PostHooks == { Passes, ValidationError("post") }

\* three filters: one rewrites a value, one drops a placeholder value, one
\* rejects a missing value
FilterKinds == {"upper", "none_if_abc", "reject_none"}

\* filter(data)
ApplyFilter(f, x) ==
    CASE f = "upper" -> Ok(IF x = StrV("abc") THEN StrV("ABC") ELSE x)
      [] f = "none_if_abc" -> Ok(IF x = StrV("abc") THEN None ELSE x)
      [] f = "reject_none" ->
            IF x = None THEN Raise("ValueError", <<"A value is required.">>) ELSE Ok(x)
      [] f = "reject_upper" ->
            IF x = StrV("ABC") THEN Raise("ValueError", <<"No capitals.">>) ELSE Ok(x)

---------------------------------------------------------------------------
(* Submissions.  A key is a sequence of characters; a submission maps some *)
(* keys to non-empty lists of strings.  `formdata=None` is a value of its  *)
(* own, distinct from a submission without keys.                           *)

NoItems == [k \in {} |-> <<>>]
FormdataNone == [none |-> TRUE, items |-> NoItems]
Formdata(items) == [none |-> FALSE, items |-> items]

\* `name in formdata`
HasKey(formdata, name) == name \in DOMAIN formdata.items
\* formdata.getlist(name)
GetList(formdata, name) == formdata.items[name]

---------------------------------------------------------------------------
(* Field *)

\* what a coercion step or the filter loop leaves behind: the value of
\* self.data and the exception it raised, if any
Step(data, exc, args) == [data |-> data, exc |-> exc, args |-> args]

\* `try: data = self.default() except TypeError: data = self.default`
ResolveDefault(default) == default.value

\* Field.process_data, IntegerField.process_data
process_data(ftype, value) ==
    IF ftype = "IntegerField"
    THEN IF value = None \/ value = unset_value
         THEN Step(None, "", <<>>)
         ELSE LET r == PyInt(value) IN
              IF r.ok THEN Step(r.v, "", <<>>)
              ELSE IF r.exc \in {"ValueError", "TypeError"}
                   THEN Step(None, "ValueError", <<"Not a valid integer value.">>)
                   ELSE Step(NoAttr, r.exc, r.args)
    ELSE Step(value, "", <<>>)

\* Field.process_formdata and the overrides of StringField, IntegerField,
\* DecimalField (use_locale=False) and FloatField; `data` is self.data before
process_formdata(ftype, valuelist, data) ==
    IF valuelist = <<>> THEN Step(data, "", <<>>)
    ELSE LET raw == StrV(valuelist[1]) IN
         CASE ftype = "IntegerField" ->
                LET r == PyInt(raw) IN
                IF r.ok THEN Step(r.v, "", <<>>)
                ELSE IF r.exc = "ValueError"
                     THEN Step(None, "ValueError", <<"Not a valid integer value.">>)
                     ELSE Step(data, r.exc, r.args)
           [] ftype = "FloatField" ->
                LET r == PyFloat(raw) IN
                IF r.ok THEN Step(r.v, "", <<>>)
                ELSE IF r.exc = "ValueError"
                     THEN Step(None, "ValueError", <<"Not a valid float value.">>)
                     ELSE Step(data, r.exc, r.args)
           [] ftype = "DecimalField" ->
                LET r == PyDecimal(raw) IN
                IF r.ok THEN Step(r.v, "", <<>>)
                ELSE IF r.exc \in {"InvalidOperation", "ValueError"}
                     THEN Step(None, "ValueError", <<"Not a valid decimal value.">>)
                     ELSE Step(data, r.exc, r.args)
           [] OTHER -> Step(raw, "", <<>>)

\* `choices`: None, or a list of choices; a choice is modelled by its value
\* (the label plays no part in processing or validation)
NoChoices == [null |-> TRUE, values |-> <<>>]
Choices(values) == [null |-> FALSE, values |-> values]

\* SelectField.process_data
select_process_data(self, value) ==
    IF value = None THEN Step(None, "", <<>>)
    ELSE LET r == Coerce(self.coerce, value) IN
         IF r.ok THEN Step(r.v, "", <<>>)
         ELSE IF r.exc \in {"ValueError", "TypeError"} THEN Step(None, "", <<>>)
              ELSE Step(NoAttr, r.exc, r.args)

\* SelectField.process_formdata; `data` is self.data before
select_process_formdata(self, valuelist, data) ==
    IF valuelist = <<>> THEN Step(data, "", <<>>)
    ELSE LET r == Coerce(self.coerce, StrV(valuelist[1])) IN
         IF r.ok THEN Step(r.v, "", <<>>)
         ELSE IF r.exc = "ValueError"
              THEN Step(data, "ValueError", <<"Invalid Choice: could not coerce.">>)
              ELSE Step(data, r.exc, r.args)

\* `for _, _, match in self.iter_choices(): if match: break / else: raise`
\* from position i on: iter_choices coerces one choice at a time
RECURSIVE match_choices(_, _, _, _)
match_choices(coerce, values, data, i) ==
    IF i > Len(values) THEN ValidationError("Not a valid choice.")
    ELSE LET r == Coerce(coerce, values[i]) IN
         IF ~r.ok THEN [raises |-> r.exc, args |-> r.args]
         ELSE IF r.v = data THEN Passes
         ELSE match_choices(coerce, values, data, i + 1)

\* reading self.data before any process() has assigned it
NoDataAttribute == [raises |-> "AttributeError", args |-> <<"data">>]

\* SelectField.pre_validate: what the call does
select_pre_validate(self) ==
    IF self.choices.null
    THEN [raises |-> "TypeError", args |-> <<"Choices cannot be None.">>]
    ELSE IF ~self.validate_choice THEN Passes
    ELSE IF self.data = NoAttr /\ self.choices.values # <<>> THEN NoDataAttribute
    ELSE match_choices(self.coerce, self.choices.values, self.data, 1)

\* `list(self.coerce(v) for v in seq)`: the list, or the first exception
RECURSIVE coerce_all(_, _, _, _)
coerce_all(coerce, seq, i, done) ==
    IF i > Len(seq) THEN Ok(ListV(done))
    ELSE LET r == Coerce(coerce, seq[i]) IN
         IF r.ok THEN coerce_all(coerce, seq, i + 1, Append(done, r.v)) ELSE r

\* SelectMultipleField.process_data: a value that is not iterable raises
\* TypeError, which is swallowed like a failed coercion
multi_process_data(self, value) ==
    IF ~IsList(value) THEN Step(None, "", <<>>)
    ELSE LET r == coerce_all(self.coerce, Items(value), 1, <<>>) IN
         IF r.ok THEN Step(r.v, "", <<>>)
         ELSE IF r.exc \in {"ValueError", "TypeError"} THEN Step(None, "", <<>>)
              ELSE Step(NoAttr, r.exc, r.args)

\* SelectMultipleField.process_formdata; `data` is self.data before
multi_process_formdata(self, valuelist, data) ==
    LET r == coerce_all(self.coerce, [n \in 1..Len(valuelist) |-> StrV(valuelist[n])],
                        1, <<>>) IN
    IF r.ok THEN Step(r.v, "", <<>>)
    ELSE IF r.exc = "ValueError"
         THEN Step(data, "ValueError",
                   <<"Invalid choice(s): one or more data inputs could not be coerced.">>)
         ELSE Step(data, r.exc, r.args)

\* the message of SelectMultipleField.pre_validate, singular or plural by
\* the number of distinct unacceptable values (the values it quotes are
\* left out)
NotValidChoices(n) ==
    IF n = 1 THEN "'%(value)s' is not a valid choice for this field."
    ELSE "'%(value)s' are not valid choices for this field."

\* `acceptable = {c[0] for c in self.iter_choices()}`: the values of the
\* choices as given
Acceptable(self) == {self.choices.values[n] : n \in 1..Len(self.choices.values)}

\* SelectMultipleField.pre_validate: what the call does.  iter_choices
\* coerces every choice when data is not None, so a choice that cannot be
\* coerced raises
multi_pre_validate(self) ==
    IF self.choices.null
    THEN [raises |-> "TypeError", args |-> <<"Choices cannot be None.">>]
    ELSE IF ~self.validate_choice THEN Passes
    ELSE IF self.data = NoAttr THEN NoDataAttribute
    ELSE IF self.data = None \/ Items(self.data) = <<>> THEN Passes
    ELSE LET coerced == coerce_all(self.coerce, self.choices.values, 1, <<>>)
             chosen == {Items(self.data)[n] : n \in 1..Len(Items(self.data))}
             unacceptable == chosen \ Acceptable(self)
         IN  IF ~coerced.ok THEN [raises |-> coerced.exc, args |-> coerced.args]
             ELSE IF unacceptable = {} THEN Passes
             ELSE ValidationError(NotValidChoices(Cardinality(unacceptable)))

\* BooleanField.process_data
boolean_process_data(self, value) == Step(BoolV(PyBool(value)), "", <<>>)

\* a process_formdata that, like the other fields', returns at once when
\* nothing was submitted
boolean_process_formdata_keeping(self, valuelist, data) ==
    IF valuelist = <<>> THEN Step(data, "", <<>>)
    ELSE IF StrV(valuelist[1]) \in self.false_values THEN Step(BoolV(FALSE), "", <<>>)
    ELSE Step(BoolV(TRUE), "", <<>>)

\* BooleanField.process_formdata; `data` is self.data before
boolean_process_formdata(self, valuelist, data) ==
    IF valuelist = <<>> \/ StrV(valuelist[1]) \in self.false_values
    THEN Step(BoolV(FALSE), "", <<>>)
    ELSE Step(BoolV(TRUE), "", <<>>)

\* " ".join(valuelist) from position i on
RECURSIVE JoinSpaces(_, _)
JoinSpaces(valuelist, i) ==
    IF i > Len(valuelist) THEN ""
    ELSE IF i = Len(valuelist) THEN valuelist[i]
    ELSE valuelist[i] \o " " \o JoinSpaces(valuelist, i + 1)

\* the `format` of DateTimeField and of DateField
DateTimeFormat == "%Y-%m-%d %H:%M:%S"
DateFormat == "%Y-%m-%d"

\* datetime.datetime.strptime(date_str, format) on the strings of the model
Strptime(date_str, format) ==
    IF \/ format = DateTimeFormat /\ date_str = "2020-01-02 03:04:05"
       \/ format = DateFormat /\ date_str = "2020-01-02"
    THEN Ok(<<"datetime", date_str>>)
    ELSE Raise("ValueError", <<"time data does not match format">>)

\* DateTimeField.process_formdata and DateField.process_formdata (which
\* keeps the .date() of what it parsed); `data` is self.data before
datetime_process_formdata(self, valuelist, data) ==
    IF valuelist = <<>> THEN Step(data, "", <<>>)
    ELSE LET r == Strptime(JoinSpaces(valuelist, 1), self.format) IN
         IF r.ok
         THEN Step(IF self.ftype = "DateField" THEN <<"date", r.v[2]>> ELSE r.v, "", <<>>)
         ELSE Step(None, "ValueError",
                   <<IF self.ftype = "DateField" THEN "Not a valid date value."
                     ELSE "Not a valid datetime value.">>)

\* the process_data, process_formdata and pre_validate of the field's class
ProcessData(self, value) ==
    CASE self.ftype = "SelectField" -> select_process_data(self, value)
      [] self.ftype = "SelectMultipleField" -> multi_process_data(self, value)
      [] self.ftype = "BooleanField" -> boolean_process_data(self, value)
      [] OTHER -> process_data(self.ftype, value)
ProcessFormdata(self, valuelist, data) ==
    CASE self.ftype = "SelectField" -> select_process_formdata(self, valuelist, data)
      [] self.ftype = "SelectMultipleField" -> multi_process_formdata(self, valuelist, data)
      [] self.ftype = "BooleanField" -> boolean_process_formdata(self, valuelist, data)
      [] self.ftype \in {"DateTimeField", "DateField"} ->
            datetime_process_formdata(self, valuelist, data)
      [] OTHER -> process_formdata(self.ftype, valuelist, data)
PreValidate(self) ==
    CASE self.ftype = "SelectField" -> select_pre_validate(self)
      [] self.ftype = "SelectMultipleField" -> multi_pre_validate(self)
      [] OTHER -> self.pre_validate

\* a filter loop that clears data when a filter raises
RECURSIVE run_filters_clearing(_, _, _)
run_filters_clearing(chain, i, data) ==
    IF i > Len(chain) THEN Step(data, "", <<>>)
    ELSE LET r == ApplyFilter(chain[i], data) IN
         IF r.ok THEN run_filters_clearing(chain, i + 1, r.v)
         ELSE Step(None, r.exc, r.args)

\* the filter loop of Field.process: `for filter in chain: self.data = filter(self.data)`
\* from position i on; the first exception leaves the loop
RECURSIVE run_filters(_, _, _)
run_filters(chain, i, data) ==
    IF i > Len(chain) THEN Step(data, "", <<>>)
    ELSE LET r == ApplyFilter(chain[i], data) IN
         IF r.ok THEN run_filters(chain, i + 1, r.v)
         ELSE Step(data, r.exc, r.args)

\* process() catches ValueError alone; anything else leaves process()
Caught(step) == step.exc = "ValueError"
Uncaught(step) == step.exc \notin {"", "ValueError"}
\* a process() whose except clause swallows the ValueError without recording it
RecordedNowhere(process_errors, step) == process_errors

\* `self.process_errors.append(e.args[0])` when the step's ValueError is caught
Recorded(process_errors, step) ==
    IF Caught(step) THEN Append(process_errors, step.args[1]) ELSE process_errors

\* a process() that keeps the messages of the previous call
ResetErrorsKept(process_errors) == process_errors

\* `self.process_errors = []`
ResetErrors(process_errors) == <<>>

\* Field.process(formdata, data, extra_filters): the field afterwards, the
\* exception that left process() (if any), the steps that ran and the steps
\* that raised, in order
process(self, formdata, data, extra_filters) ==
    LET process_errors0 == ResetErrors(self.process_errors)
        value == IF data = unset_value THEN ResolveDefault(self.default) ELSE data
        \* the three steps, each given the outcome of the steps before it
        RunsFormdata(pd) == ~Uncaught(pd) /\ ~formdata.none
        RawData(pd) == IF ~RunsFormdata(pd) THEN self.raw_data
                       ELSE IF HasKey(formdata, self.name)
                            THEN GetList(formdata, self.name) ELSE <<>>
        FormdataStep(pd) == IF RunsFormdata(pd)
                            THEN ProcessFormdata(self, RawData(pd), pd.data)
                            ELSE Step(pd.data, "", <<>>)
        RunsFilters(pd, pf) == ~Uncaught(pd) /\ ~Uncaught(pf)
        FilterStep(pd, pf) == IF RunsFilters(pd, pf)
                              THEN run_filters(self.filters \o extra_filters, 1, pf.data)
                              ELSE Step(pf.data, "", <<>>)
        After(pd, pf, fl) ==
            [ self |-> [self EXCEPT
                          !.process_errors =
                              Recorded(Recorded(Recorded(process_errors0, pd), pf), fl),
                          !.object_data = value,
                          !.raw_data = RawData(pd),
                          !.data = fl.data],
              raised |-> IF Uncaught(pd) THEN pd.exc
                         ELSE IF Uncaught(pf) THEN pf.exc
                         ELSE IF Uncaught(fl) THEN fl.exc ELSE "",
              steps |-> <<"process_data">>
                        \o (IF RunsFormdata(pd) THEN <<"process_formdata">> ELSE <<>>)
                        \o (IF RunsFilters(pd, pf) THEN <<"filters">> ELSE <<>>),
              failed |-> (IF pd.exc = "" THEN <<>> ELSE <<"process_data">>)
                         \o (IF pf.exc = "" THEN <<>> ELSE <<"process_formdata">>)
                         \o (IF fl.exc = "" THEN <<>> ELSE <<"filters">>) ]
    IN  CHOOSE r \in
            UNION { UNION { { After(pd, pf, fl) : fl \in {FilterStep(pd, pf)} } :
                            pf \in {FormdataStep(pd)} } :
                    pd \in {ProcessData(self, value)} } : TRUE

\* one entry of the log of calls validate() makes
Event(ev, i, stopped) == [ev |-> ev, i |-> i, stopped |-> stopped]

\* the except clauses shared by validate and _run_validation_chain:
\* StopValidation appends args[0] when there is a non-empty one,
\* ValidationError appends args[0]
AppendRaised(errors, v) ==
    CASE v.raises = "StopValidation" ->
            IF v.args # <<>> /\ v.args[1] # "" THEN Append(errors, v.args[1]) ELSE errors
      [] v.raises = "ValidationError" -> Append(errors, v.args[1])
      [] OTHER -> errors

\* Field._run_validation_chain from position i on: self.errors afterwards,
\* the value returned, and the validators invoked (by position)
RECURSIVE run_chain_from(_, _, _, _)
run_chain_from(validators, i, errors, events) ==
    IF i > Len(validators)
    THEN [errors |-> errors, stop |-> FALSE, events |-> events]
    ELSE LET v == validators[i]
             called == Append(events, Event("validator", i, FALSE))
         IN  IF v.raises = "StopValidation"
             THEN [errors |-> AppendRaised(errors, v), stop |-> TRUE, events |-> called]
             ELSE run_chain_from(validators, i + 1, AppendRaised(errors, v), called)

\* a chain runner that records StopValidation's message but goes on
RECURSIVE run_chain_nostop_from(_, _, _, _)
run_chain_nostop_from(validators, i, errors, events) ==
    IF i > Len(validators)
    THEN [errors |-> errors, stop |-> FALSE, events |-> events]
    ELSE run_chain_nostop_from(validators, i + 1, AppendRaised(errors, validators[i]),
                               Append(events, Event("validator", i, FALSE)))
run_validation_chain_nostop(errors, validators) ==
    run_chain_nostop_from(validators, 1, errors, <<>>)

\* Field._run_validation_chain(form, validators)
run_validation_chain(errors, validators) == run_chain_from(validators, 1, errors, <<>>)

\* a validate() that starts from an empty error list
InitialErrorsEmpty(self) == <<>>

\* a validate() that goes on from the errors of the call before
InitialErrorsCarried(self) == self.errors \o self.process_errors

\* `self.errors = list(self.process_errors)`
InitialErrors(self) == self.process_errors

\* a validate() that swallows what post_validate raises
AppendPostRaisedDropped(errors, post) == errors

\* the except clause around post_validate: ValidationError appends args[0]
AppendPostRaised(errors, post) ==
    IF post.raises = "ValidationError" THEN Append(errors, post.args[1]) ELSE errors

\* Field.validate(form, extra_validators): the field afterwards, the value
\* returned and the calls made
validate(self, extra_validators) ==
    LET errors0 == InitialErrors(self)
        pre == PreValidate(self)
        errors1 == AppendRaised(errors0, pre)
        stop1 == pre.raises = "StopValidation"
        chain == IF stop1
                 THEN [errors |-> errors1, stop |-> TRUE, events |-> <<>>]
                 ELSE run_validation_chain(errors1, self.validators \o extra_validators)
        post == self.post_validate
        errors3 == AppendPostRaised(chain.errors, post)
    IN  IF pre.raises \notin {"", "StopValidation", "ValidationError"}
        THEN \* pre_validate raised something validate() does not catch
             [ self |-> [self EXCEPT !.errors = errors0],
               raised |-> pre.raises, ret |-> FALSE,
               events |-> <<Event("pre_validate", 0, FALSE)>> ]
        ELSE [ self |-> [self EXCEPT !.errors = errors3],
               raised |-> "", ret |-> Len(errors3) = 0,
               events |-> <<Event("pre_validate", 0, FALSE)>> \o chain.events
                          \o <<Event("post_validate", 0, chain.stop)>> ]

---------------------------------------------------------------------------
(* The scalar Field under study *)

FieldTypes == {"StringField", "IntegerField", "FloatField", "DecimalField"}

\* `default` is a value or a zero-argument callable returning one
Default(callable, value) == [callable |-> callable, value |-> value]

\* the field's name, "a", and another field's name, "b", as submission keys
FieldName == <<"a">>
OtherName == <<"b">>

\* Field.__init__: the field as bound, before any call
NewField(name, ftype, default, validators, filters, pre, post) ==
    [ ftype |-> ftype, name |-> name, default |-> default,
      validators |-> validators, filters |-> filters,
      pre_validate |-> pre, post_validate |-> post,
      data |-> NoAttr, object_data |-> NoAttr, raw_data |-> None,
      process_errors |-> <<>>, errors |-> <<>> ]

\* log of a call; `again` marks a call that repeats the call before it, with
\* the same arguments and nothing in between
Call(op, raised, ret, events, steps, failed, formdata, data, extra) ==
    [ op |-> op, raised |-> raised, ret |-> ret, events |-> events,
      steps |-> steps, failed |-> failed,
      formdata |-> formdata, data |-> data, extra |-> extra,
      again |-> FALSE ]
Repeats(call, op, extra) == call.op = op /\ call.extra = extra
NoCall == Call("", "", FALSE, <<>>, <<>>, <<>>, FormdataNone, unset_value, <<>>)

\* placeholders for the objects a specification does not exercise
NoField == [ftype |-> ""]
NoFieldList == [entries |-> <<>>]
NoFormField == [form |-> <<>>]
NoTarget == [attr |-> None]

\* field.process(formdata, data, extra_filters), the arguments drawn from the
\* given sets
Process(submissions, values, filterseqs) ==
    \E formdata \in submissions, data \in values, extra_filters \in filterseqs :
        \E r \in {process(field, formdata, data, extra_filters)} :
        /\ field' = r.self
        /\ last' = Call("process", r.raised, FALSE, <<>>, r.steps, r.failed,
                        formdata, data, extra_filters)
        /\ UNCHANGED <<fieldlist, formfield, target, assigned>>

\* field.validate(form, extra_validators), the argument drawn from the given set
Validate(validatorseqs) ==
    \E extra_validators \in validatorseqs :
        \E r \in {validate(field, extra_validators)} :
        /\ field' = r.self
        /\ last' = [Call("validate", r.raised, r.ret, r.events, <<>>, <<>>,
                         FormdataNone, unset_value, extra_validators)
                        EXCEPT !.again = Repeats(last, "validate", extra_validators)]
        /\ UNCHANGED <<fieldlist, formfield, target, assigned>>

---------------------------------------------------------------------------
(* Spec: a field of every built-in scalar type, processed with every      *)
(* submission and object value and validated.                             *)

Submissions ==
    { FormdataNone,
      Formdata([k \in {OtherName} |-> <<"7">>]),
      Formdata([k \in {FieldName} |-> <<"7">>]),
      Formdata([k \in {FieldName} |-> <<"abc", "7">>]),
      Formdata([k \in {FieldName} |-> <<"1.5">>]) }
ObjectValues == {unset_value, IntV("7")}
FilterSeqs == {<<>>} \cup {<<f>> : f \in FilterKinds}

TypedFields ==
    { NewField(FieldName, t, d, v, f, Passes, Passes) :
        t \in FieldTypes,
        d \in {Default(FALSE, None), Default(TRUE, StrV("abc"))},
        v \in {<<Passes>>, <<ValidationError("e1")>>},
        f \in FilterSeqs }

Init ==
    /\ field \in TypedFields
    /\ fieldlist = NoFieldList
    /\ formfield = NoFormField
    /\ target = NoTarget
    /\ last = NoCall
    /\ assigned = {}

ProcessField == Process(Submissions, ObjectValues, FilterSeqs)
ValidateField == Validate({<<>>})

Next == ProcessField \/ ValidateField

Spec == Init /\ [][Next]_vars

---------------------------------------------------------------------------
(* SpecChain: a Field subclass with every validator sequence, and with     *)
(* overridden pre_validate / post_validate hooks, validated with every     *)
(* sequence of extra validators.  It is an IntegerField so that process() *)
(* can leave a message in process_errors.                                  *)

ChainFields ==
    { NewField(FieldName, "IntegerField", Default(FALSE, None), v, <<>>, Passes, Passes) :
        v \in SeqsUpTo(ValidatorKinds, MaxValidators) }
HookedFields ==
    { NewField(FieldName, "IntegerField", Default(FALSE, None), v, <<>>, pre, post) :
        v \in {<<>>, <<ValidationError("e1")>>, <<StopValidation(<<"stop">>)>>},
        pre \in PreHooks, post \in PostHooks }

InitChain ==
    /\ field \in ChainFields \cup HookedFields
    /\ fieldlist = NoFieldList
    /\ formfield = NoFormField
    /\ target = NoTarget
    /\ last = NoCall
    /\ assigned = {}

ProcessChain ==
    Process({FormdataNone, Formdata([k \in {FieldName} |-> <<"abc">>])},
            {unset_value}, {<<>>})
ValidateChain == Validate(SeqsUpTo(ValidatorKinds, MaxExtraValidators))

NextChain == ProcessChain \/ ValidateChain

SpecChain == InitChain /\ [][NextChain]_vars

---------------------------------------------------------------------------
(* SpecSelect: a SelectField and a SelectMultipleField named "a", with     *)
(* either coerce function, with and without choices and choice validation, *)
(* processed with submissions of one and of several values and validated.  *)

\* SelectField.__init__: the field as bound, before any call
NewSelectField(ftype, coerce, choices, validate_choice, default) ==
    NewField(FieldName, ftype, default, <<>>, <<>>, Passes, Passes)
        @@ [coerce |-> coerce, choices |-> choices, validate_choice |-> validate_choice]

SelectChoices ==
    { NoChoices, Choices(<<>>),
      Choices(<<StrV("7"), StrV("abc")>>),
      Choices(<<StrV("7")>>),
      Choices(<<IntV("7")>>) }

SelectFields ==
    { NewSelectField(t, c, ch, vc, Default(FALSE, None)) :
        t \in {"SelectField", "SelectMultipleField"},
        c \in CoerceKinds, ch \in SelectChoices, vc \in BOOLEAN }

SelectSubmissions ==
    { FormdataNone,
      Formdata([k \in {OtherName} |-> <<"7">>]),
      Formdata([k \in {FieldName} |-> <<"7">>]),
      Formdata([k \in {FieldName} |-> <<"abc">>]),
      Formdata([k \in {FieldName} |-> <<"1.5">>]),
      Formdata([k \in {FieldName} |-> <<"7", "abc">>]),
      Formdata([k \in {FieldName} |-> <<"1.5", "abc">>]) }

SelectObjectValues ==
    { unset_value, IntV("7"), StrV("abc"), ListV(<<IntV("7")>>), ListV(<<StrV("abc")>>) }

InitSelect ==
    /\ field \in SelectFields
    /\ fieldlist = NoFieldList
    /\ formfield = NoFormField
    /\ target = NoTarget
    /\ last = NoCall
    /\ assigned = {}

ProcessSelect == Process(SelectSubmissions, SelectObjectValues, {<<>>})
ValidateSelect == Validate({<<>>})

NextSelect == ProcessSelect \/ ValidateSelect

SpecSelect == InitSelect /\ [][NextSelect]_vars

---------------------------------------------------------------------------
(* SpecFilters: a StringField with every sequence of filters, processed    *)
(* with every sequence of extra filters.  Besides the three filters above  *)
(* there is one that rejects a value an earlier filter may produce.        *)

\* longest `filters` sequence a field is constructed with
MaxFilters == 2

ChainedFilterKinds == FilterKinds \cup {"reject_upper"}

FilteredFields ==
    { NewField(FieldName, "StringField", Default(FALSE, None), <<>>, f, Passes, Passes) :
        f \in SeqsUpTo(ChainedFilterKinds, MaxFilters) }

InitFilters ==
    /\ field \in FilteredFields
    /\ fieldlist = NoFieldList
    /\ formfield = NoFormField
    /\ target = NoTarget
    /\ last = NoCall
    /\ assigned = {}

ProcessFiltered ==
    Process({FormdataNone, Formdata([k \in {FieldName} |-> <<"abc">>])},
            {unset_value, StrV("ABC")},
            {<<>>} \cup {<<f>> : f \in ChainedFilterKinds})
ValidateFiltered == Validate({<<>>})

NextFilters == ProcessFiltered \/ ValidateFiltered

SpecFilters == InitFilters /\ [][NextFilters]_vars

---------------------------------------------------------------------------
(* SpecCoercion: one field of every scalar type of the coercion table,     *)
(* without filters, processed with object values and with submissions the  *)
(* type accepts and rejects.                                               *)

\* DateTimeField.__init__ and DateField.__init__
NewDateTimeField(ftype, default) ==
    NewField(FieldName, ftype, default, <<>>, <<>>, Passes, Passes)
        @@ [format |-> IF ftype = "DateField" THEN DateFormat ELSE DateTimeFormat]

CoercedFields ==
    { NewField(FieldName, t, d, <<>>, <<>>, Passes, Passes) :
        t \in FieldTypes, d \in {Default(FALSE, None), Default(FALSE, IntV("7"))} }
    \cup { NewDateTimeField(t, d) :
             t \in {"DateTimeField", "DateField"},
             d \in {Default(FALSE, None), Default(FALSE, IntV("7"))} }
    \cup { NewSelectField("SelectField", c, Choices(<<IntV("7")>>), TRUE, d) :
             c \in CoerceKinds,
             d \in {Default(FALSE, None), Default(FALSE, IntV("7"))} }

CoercedSubmissions ==
    { FormdataNone, Formdata(NoItems) }
    \cup { Formdata([k \in {FieldName} |-> vs]) :
              vs \in { <<"7">>, <<"abc">>, <<"1.5">>, <<"2020-01-02">>,
                       <<"2020-01-02", "03:04:05">>, <<"7", "abc">> } }

InitCoercion ==
    /\ field \in CoercedFields
    /\ fieldlist = NoFieldList
    /\ formfield = NoFormField
    /\ target = NoTarget
    /\ last = NoCall
    /\ assigned = {}

ProcessCoerced == Process(CoercedSubmissions, {unset_value, None, IntV("7")}, {<<>>})
ValidateCoerced == Validate({<<>>})

NextCoercion == ProcessCoerced \/ ValidateCoerced

SpecCoercion == InitCoercion /\ [][NextCoercion]_vars

---------------------------------------------------------------------------
(* SpecBoolean: a BooleanField named "a" with the default and with other   *)
(* false_values, processed with and without a submission and object data.  *)

\* BooleanField.false_values as the class defines it
DefaultFalseValues == {BoolV(FALSE), StrV("false"), StrV("")}

\* BooleanField.__init__: the field as bound, before any call
NewBooleanField(false_values, default) ==
    NewField(FieldName, "BooleanField", default, <<>>, <<>>, Passes, Passes)
        @@ [false_values |-> false_values]

BooleanFields ==
    { NewBooleanField(fv, d) :
        fv \in {DefaultFalseValues, {}, {StrV("abc")}, {StrV("7"), StrV("false")}},
        d \in {Default(FALSE, None), Default(FALSE, BoolV(TRUE)),
                Default(TRUE, StrV("abc"))} }

BooleanSubmissions ==
    { FormdataNone,
      Formdata(NoItems),
      Formdata([k \in {OtherName} |-> <<"7">>]) }
    \cup { Formdata([k \in {FieldName} |-> vs]) :
              vs \in { <<"">>, <<"false">>, <<"abc">>, <<"7">>, <<"y">>,
                       <<"abc", "">>, <<"", "abc">> } }

BooleanObjectValues == {unset_value, None, BoolV(TRUE), BoolV(FALSE), IntV("7")}

InitBoolean ==
    /\ field \in BooleanFields
    /\ fieldlist = NoFieldList
    /\ formfield = NoFormField
    /\ target = NoTarget
    /\ last = NoCall
    /\ assigned = {}

ProcessBoolean == Process(BooleanSubmissions, BooleanObjectValues, {<<>>})
ValidateBoolean == Validate({<<>>})

NextBoolean == ProcessBoolean \/ ValidateBoolean

SpecBoolean == InitBoolean /\ [][NextBoolean]_vars

---------------------------------------------------------------------------
(* Strings, as far as FieldList needs them: a string is a sequence of      *)
(* characters.                                                             *)

DigitChars == <<"0", "1", "2", "3", "4", "5", "6", "7", "8", "9">>
IsDigitChar(c) == \E d \in 1..10 : DigitChars[d] = c
DigitValue(c) == (CHOOSE d \in 1..10 : DigitChars[d] = c) - 1

\* k.startswith(prefix)
StartsWith(k, prefix) ==
    Len(k) >= Len(prefix) /\ SubSeq(k, 1, Len(prefix)) = prefix
\* k[offset:]
SliceFrom(k, offset) == SubSeq(k, offset + 1, Len(k))
\* k.split("-", 1)[0]
BeforeHyphen(k) ==
    IF \E i \in 1..Len(k) : k[i] = "-"
    THEN SubSeq(k, 1, (CHOOSE i \in 1..Len(k) :
                          k[i] = "-" /\ \A j \in 1..(i - 1) : k[j] # "-") - 1)
    ELSE k
\* k.isdigit()
IsDigit(k) == Len(k) > 0 /\ \A i \in 1..Len(k) : IsDigitChar(k[i])
\* int(k) for a string of digits
RECURSIVE IntOfDigits(_)
IntOfDigits(k) ==
    IF Len(k) = 0 THEN 0
    ELSE 10 * IntOfDigits(SubSeq(k, 1, Len(k) - 1)) + DigitValue(k[Len(k)])
\* "%d" % n for n >= 0
RECURSIVE FormatInt(_)
FormatInt(n) ==
    IF n < 10 THEN <<DigitChars[n + 1]>>
    ELSE FormatInt(n \div 10) \o <<DigitChars[(n % 10) + 1]>>

\* sorted(S) for a set of integers
RECURSIVE Sorted(_)
Sorted(S) ==
    IF S = {} THEN <<>>
    ELSE LET m == CHOOSE x \in S : \A y \in S : x <= y
         IN  <<m>> \o Sorted(S \ {m})

---------------------------------------------------------------------------
(* FieldList.  The loops of process() are recursive operators; each step  *)
(* is bound as the one element of a set, so that it is computed once.      *)

\* max_entries is None or an integer: <<>> stands for None, <<n>> for n
NoMax == <<>>
\* `index=None`, `index=i`
NoIndex == <<>>
\* the truth value of max_entries: None and 0 are false
Truthy(max_entries) == max_entries # <<>> /\ max_entries[1] # 0

\* the `data` argument of FieldList.process: not given (unset_value), or a
\* sequence of object values
NoData == [given |-> FALSE, items |-> <<>>]
Data(items) == [given |-> TRUE, items |-> items]

\* what a method leaves behind: the list afterwards and the exception it
\* raised, if any
Outcome(self, raised) == [self |-> self, raised |-> raised]

\* UnboundField.bind as _add_entry calls it: a new field named
\* "<short_name>-<index>" (the list's _prefix is empty)
bind(unbound_field, short_name, index) ==
    NewField(short_name \o <<"-">> \o FormatInt(index),
             unbound_field.ftype, unbound_field.default,
             unbound_field.validators, <<>>, Passes, Passes)

\* the assertion of FieldList._add_entry
MayAdd(self) ==
    ~Truthy(self.max_entries) \/ Len(self.entries) < self.max_entries[1]

\* an _add_entry that leaves last_index alone when it is given the index
add_entry_not_advancing(self, formdata, data, index) ==
    IF ~MayAdd(self) THEN Outcome(self, "AssertionError")
    ELSE LET i == IF index = NoIndex THEN self.last_index + 1 ELSE index[1]
             entry == CHOOSE e \in
                        { process(bound, formdata, data, <<>>).self :
                            bound \in {bind(self.unbound_field, self.short_name, i)} } :
                        TRUE
         IN  Outcome([self EXCEPT !.last_index = IF index = NoIndex THEN i ELSE @,
                                  !.entries = Append(self.entries, entry)], "")

\* FieldList._add_entry(formdata, data, index)
add_entry(self, formdata, data, index) ==
    IF ~MayAdd(self) THEN Outcome(self, "AssertionError")
    ELSE LET i == IF index = NoIndex THEN self.last_index + 1 ELSE index[1]
             entry == CHOOSE e \in
                        { process(bound, formdata, data, <<>>).self :
                            bound \in {bind(self.unbound_field, self.short_name, i)} } :
                        TRUE
         IN  Outcome([self EXCEPT !.last_index = i,
                                  !.entries = Append(self.entries, entry)], "")

\* FieldList._extract_indices(prefix, formdata), as the set of what it yields
extract_indices(prefix, formdata) ==
    LET offset == Len(prefix) + 1
        segment(k) == BeforeHyphen(SliceFrom(k, offset))
    IN  { IntOfDigits(segment(k)) :
            k \in {kk \in DOMAIN formdata.items :
                      StartsWith(kk, prefix) /\ IsDigit(segment(kk))} }

\* `if formdata:` : a submission that holds at least one key
FormdataTruthy(formdata) == ~formdata.none /\ DOMAIN formdata.items # {}

\* the loop `for index in indices` of FieldList.process from position n on,
\* pairing the n-th index with the n-th element of data
RECURSIVE add_submitted(_, _, _, _, _)
add_submitted(out, formdata, indices, data, n) ==
    IF out.raised # "" \/ n > Len(indices) THEN out
    ELSE CHOOSE r \in
            { add_submitted(added, formdata, indices, data, n + 1) :
                added \in { add_entry(out.self, formdata,
                                      IF n <= Len(data) THEN data[n] ELSE unset_value,
                                      <<indices[n]>>) } } : TRUE

\* the loop `for obj_data in data` of FieldList.process from position n on
RECURSIVE add_from_data(_, _, _, _)
add_from_data(out, formdata, data, n) ==
    IF out.raised # "" \/ n > Len(data) THEN out
    ELSE CHOOSE r \in
            { add_from_data(added, formdata, data, n + 1) :
                added \in { add_entry(out.self, formdata, data[n], NoIndex) } } : TRUE

\* a padding loop that stops one entry short of min_entries
RECURSIVE pad_entries_short(_, _)
pad_entries_short(out, formdata) ==
    IF out.raised # "" \/ Len(out.self.entries) + 1 >= out.self.min_entries THEN out
    ELSE CHOOSE r \in
            { pad_entries_short(added, formdata) :
                added \in { add_entry(out.self, formdata, unset_value, NoIndex) } } : TRUE

\* the loop `while len(self.entries) < self.min_entries`
RECURSIVE pad_entries(_, _)
pad_entries(out, formdata) ==
    IF out.raised # "" \/ Len(out.self.entries) >= out.self.min_entries THEN out
    ELSE CHOOSE r \in
            { pad_entries(added, formdata) :
                added \in { add_entry(out.self, formdata, unset_value, NoIndex) } } : TRUE

\* `indices[: self.max_entries]` when max_entries is true
Truncated(indices, max_entries) ==
    IF Truthy(max_entries)
    THEN SubSeq(indices, 1, IF max_entries[1] < Len(indices)
                            THEN max_entries[1] ELSE Len(indices))
    ELSE indices

\* a base collection that is the default only when data is not given
BaseCollectionUnlessGiven(self, data) ==
    IF ~data.given THEN ResolveDefault(self.default) ELSE data.items

\* the base collection of FieldList.process: the default when data is not
\* given or is false, else data
BaseCollection(self, data) ==
    IF ~data.given \/ data.items = <<>> THEN ResolveDefault(self.default)
    ELSE data.items

\* FieldList.process(formdata, data) without extra filters
list_process(self, formdata, data) ==
    LET base == BaseCollection(self, data)
        start == Outcome([self EXCEPT !.entries = <<>>, !.has_entries = TRUE,
                                      !.object_data = base], "")
        built == IF FormdataTruthy(formdata)
                 THEN add_submitted(start, formdata,
                         Truncated(Sorted(extract_indices(self.name, formdata)),
                                   self.max_entries),
                         base, 1)
                 ELSE add_from_data(start, formdata, base, 1)
    IN  CHOOSE r \in { pad_entries(out, formdata) : out \in {built} } : TRUE

\* FieldList.append_entry(data)
append_entry(self, data) ==
    IF ~self.has_entries THEN Outcome(self, "AttributeError")
    ELSE add_entry(self, FormdataNone, data, NoIndex)

\* a pop_entry that steps last_index back by two
pop_entry_two_back(self) ==
    IF ~self.has_entries THEN Outcome(self, "AttributeError")
    ELSE IF self.entries = <<>> THEN Outcome(self, "IndexError")
    ELSE Outcome([self EXCEPT !.entries = SubSeq(self.entries, 1, Len(self.entries) - 1),
                              !.last_index = self.last_index - 2], "")

\* FieldList.pop_entry()
pop_entry(self) ==
    IF ~self.has_entries THEN Outcome(self, "AttributeError")
    ELSE IF self.entries = <<>> THEN Outcome(self, "IndexError")
    ELSE Outcome([self EXCEPT !.entries = SubSeq(self.entries, 1, Len(self.entries) - 1),
                              !.last_index = self.last_index - 1], "")

\* an element of a FieldList's errors: the error list of an entry, or a
\* message of one of the list's own validators
EntryErrors(errors) == [entry |-> TRUE, errors |-> errors, message |-> ""]
ListMessage(message) == [entry |-> FALSE, errors |-> <<>>, message |-> message]

\* a validate that keeps the per-entry lists even when all are empty
KeepEntryErrors(errors) == errors

\* `if not any(x for x in self.errors): self.errors = []`
DiscardIfAllEmpty(errors) ==
    IF \E n \in 1..Len(errors) : errors[n].errors # <<>> THEN errors ELSE <<>>

\* the loop `for subfield in self.entries` of FieldList.validate
validate_entries(entries) ==
    [n \in 1..Len(entries) |-> validate(entries[n], <<>>).self]

\* FieldList.validate(form, extra_validators): the list afterwards, the value
\* returned and the calls made
list_validate(self, extra_validators) ==
    LET entries == validate_entries(self.entries)
        errors1 == [n \in 1..Len(entries) |-> EntryErrors(entries[n].errors)]
        errors2 == DiscardIfAllEmpty(errors1)
        chain == run_validation_chain(<<>>, self.validators \o extra_validators)
        errors3 == errors2 \o [n \in 1..Len(chain.errors) |-> ListMessage(chain.errors[n])]
    IN  [ self |-> [self EXCEPT !.entries = entries, !.errors = errors3],
          ret |-> Len(errors3) = 0,
          events |-> [n \in 1..Len(entries) |-> Event("entry", n, FALSE)]
                     \o chain.events ]

\* FieldList.__init__: the list as bound, before any call; its name is "x"
ListName == <<"x">>
NewFieldList(unbound_field, validators, min_entries, max_entries, default) ==
    [ name |-> ListName, short_name |-> ListName,
      unbound_field |-> unbound_field, validators |-> validators,
      min_entries |-> min_entries, max_entries |-> max_entries,
      default |-> default,
      last_index |-> -1,
      has_entries |-> FALSE, entries |-> <<>>,
      object_data |-> <<>>, errors |-> <<>> ]

\* the declaration of the entries: the class and constructor arguments
UnboundField(ftype, default, validators) ==
    [ftype |-> ftype, default |-> default, validators |-> validators]

---------------------------------------------------------------------------
(* SpecList: a FieldList of integer fields named "x", with every           *)
(* combination of min_entries, max_entries and default, processed (again   *)
(* and again) with and without a submission and object data.               *)

\* the number of consecutive indices 0, 1, ... of the largest submission
MaxSubmitted == 5
\* the largest min_entries
MaxMinEntries == 3
\* no call that may add entries is made once last_index has reached this
MaxLastIndex == 6

\* the key "x-<i>" of entry i, and a key "x-<i>-y" below it
IndexKey(i) == ListName \o <<"-">> \o FormatInt(i)
SubKey(i) == IndexKey(i) \o <<"-", "y">>

\* a submission holding the given keys
SubmissionOf(keys) == Formdata([k \in keys |-> <<"7">>])

ListSubmissions ==
    { FormdataNone,
      Formdata(NoItems),
      SubmissionOf({OtherName}),
      SubmissionOf({IndexKey(3)}),
      SubmissionOf({IndexKey(5), IndexKey(0), IndexKey(2)}),
      SubmissionOf({IndexKey(1), SubKey(1), SubKey(0)}),
      SubmissionOf({IndexKey(i) : i \in 0..(MaxSubmitted - 1)}) }

ListData ==
    { NoData, Data(<<>>), Data(<<IntV("7")>>), Data(<<IntV("7"), StrV("abc")>>) }

IntegerEntries == UnboundField("IntegerField", Default(FALSE, None), <<>>)

FieldLists ==
    { NewFieldList(IntegerEntries, <<>>, min, max, d) :
        min \in {0, 1, MaxMinEntries},
        max \in {NoMax, <<0>>, <<1>>, <<3>>},
        d \in {Default(FALSE, <<>>), Default(TRUE, <<IntV("7")>>)} }

\* the index in the name "x-<index>" of an entry
EntryIndex(entry) == IntOfDigits(SliceFrom(entry.name, Len(ListName) + 1))
EntryIndices(entries) == [n \in 1..Len(entries) |-> EntryIndex(entries[n])]
IndexSet(entries) == {EntryIndex(entries[n]) : n \in 1..Len(entries)}

InitList ==
    /\ field = NoField
    /\ fieldlist \in FieldLists
    /\ formfield = NoFormField
    /\ target = NoTarget
    /\ last = NoCall
    /\ assigned = {}

\* fieldlist.process(formdata, data)
ProcessList(submissions, datas) ==
    /\ fieldlist.last_index < MaxLastIndex
    /\ \E formdata \in submissions, data \in datas :
        \E r \in {list_process(fieldlist, formdata, data)} :
        /\ fieldlist' = r.self
        /\ assigned' = IndexSet(r.self.entries)
        /\ last' = Call("process", r.raised, FALSE, <<>>, <<>>, <<>>,
                        formdata, data, <<>>)
        /\ UNCHANGED <<field, formfield, target>>

\* fieldlist.append_entry(data)
AppendEntry ==
    /\ fieldlist.last_index < MaxLastIndex
    /\ \E data \in {unset_value} :
        \E r \in {append_entry(fieldlist, data)} :
        /\ fieldlist' = r.self
        /\ assigned' = IF r.raised = ""
                       THEN assigned \cup {EntryIndex(r.self.entries[Len(r.self.entries)])}
                       ELSE assigned
        /\ last' = Call("append_entry", r.raised, FALSE, <<>>, <<>>, <<>>,
                        FormdataNone, Data(<<data>>), <<>>)
        /\ UNCHANGED <<field, formfield, target>>

\* fieldlist.pop_entry()
PopEntry ==
    \E r \in {pop_entry(fieldlist)} :
    /\ fieldlist' = r.self
    /\ last' = Call("pop_entry", r.raised, FALSE, <<>>, <<>>, <<>>,
                    FormdataNone, NoData, <<>>)
    /\ UNCHANGED <<field, formfield, target, assigned>>

ProcessEntries == ProcessList(ListSubmissions, ListData)

NextList == ProcessEntries

SpecList == InitList /\ [][NextList]_vars

---------------------------------------------------------------------------
(* SpecEntries: the same FieldList, processed and then grown and shrunk by *)
(* append_entry and pop_entry, in any order.                               *)

EntriesSubmissions ==
    { FormdataNone,
      SubmissionOf({IndexKey(5), IndexKey(0), IndexKey(2)}),
      SubmissionOf({IndexKey(i) : i \in 0..(MaxSubmitted - 1)}) }
EntriesData == { NoData, Data(<<IntV("7"), StrV("abc")>>) }

InitEntries ==
    /\ field = NoField
    /\ fieldlist \in
         { NewFieldList(IntegerEntries, <<>>, min, max, Default(FALSE, <<>>)) :
             min \in {0, MaxMinEntries}, max \in {NoMax, <<0>>, <<1>>, <<3>>} }
    /\ formfield = NoFormField
    /\ target = NoTarget
    /\ last = NoCall
    /\ assigned = {}

ProcessThenEdit == ProcessList(EntriesSubmissions, EntriesData)

NextEntries == ProcessThenEdit \/ AppendEntry \/ PopEntry

SpecEntries == InitEntries /\ [][NextEntries]_vars

---------------------------------------------------------------------------
(* SpecIndices: a FieldList named "x" processed with submissions whose     *)
(* keys resemble its entries' names in various ways.                       *)

IndexedSubmissions ==
    { SubmissionOf(keys) :
        keys \in { {IndexKey(0)},
                   {SubKey(1)},
                   {<<"x", "-", "0", "1">>},
                   {<<"x", "-", "2", "-", "3">>},
                   {<<"x">>}, {<<"x", "-">>}, {<<"x", "-", "y">>},
                   {<<"y", "-", "1">>},
                   {<<"x", "y", "-", "1">>},
                   {<<"x", "y", "1">>},
                   {<<"x", "1", "0">>},
                   {IndexKey(0), <<"x", "y", "1">>} } }

InitIndices ==
    /\ field = NoField
    /\ fieldlist \in
         { NewFieldList(UnboundField("StringField", Default(FALSE, None), <<>>),
                        <<>>, min, max, Default(FALSE, <<>>)) :
             min \in {0, 1}, max \in {NoMax, <<1>>} }
    /\ formfield = NoFormField
    /\ target = NoTarget
    /\ last = NoCall
    /\ assigned = {}

ProcessIndexed == ProcessList(IndexedSubmissions, {NoData, Data(<<StrV("abc")>>)})

NextIndices == ProcessIndexed

SpecIndices == InitIndices /\ [][NextIndices]_vars

---------------------------------------------------------------------------
(* SpecListValidate: a FieldList of integer fields with and without        *)
(* validators of its own and of its entries, processed and validated.      *)

\* the longest sequence of validators of the list itself
MaxListValidators == 1

ValidatedSubmissions ==
    { FormdataNone,
      Formdata([k \in {IndexKey(0)} |-> <<"7">>]),
      Formdata([k \in {IndexKey(0), IndexKey(1)} |-> <<"7">>]),
      Formdata([k \in {IndexKey(0), IndexKey(1)} |->
                    IF k = IndexKey(0) THEN <<"7">> ELSE <<"abc">>]),
      Formdata([k \in {IndexKey(0), IndexKey(2)} |->
                    IF k = IndexKey(0) THEN <<"abc">> ELSE <<"7">>]) }
ValidatedData == { NoData, Data(<<IntV("7"), StrV("abc")>>) }

ListValidatorKinds ==
    { Passes, ValidationError("list"), StopValidation(<<"stop">>), StopValidation(<<>>) }

InitListValidate ==
    /\ field = NoField
    /\ fieldlist \in
         { NewFieldList(UnboundField("IntegerField", Default(FALSE, None), ev),
                        v, min, NoMax, Default(FALSE, <<>>)) :
             ev \in {<<>>, <<ValidationError("e1")>>},
             v \in SeqsUpTo(ListValidatorKinds, MaxListValidators),
             min \in {0, 1} }
    /\ formfield = NoFormField
    /\ target = NoTarget
    /\ last = NoCall
    /\ assigned = {}

\* fieldlist.validate(form, extra_validators)
ValidateList ==
    /\ fieldlist.has_entries
    /\ \E extra_validators \in {<<>>, <<ValidationError("extra")>>} :
        \E r \in {list_validate(fieldlist, extra_validators)} :
        /\ fieldlist' = r.self
        /\ last' = [Call("validate", "", r.ret, r.events, <<>>, <<>>,
                         FormdataNone, NoData, extra_validators)
                        EXCEPT !.again = Repeats(last, "validate", extra_validators)]
        /\ UNCHANGED <<field, formfield, target, assigned>>

ProcessToValidate == ProcessList(ValidatedSubmissions, ValidatedData)

NextListValidate == ProcessToValidate \/ ValidateList

SpecListValidate == InitListValidate /\ [][NextListValidate]_vars

---------------------------------------------------------------------------
(* SpecRevalidate: either a field of SpecChain or a list of                *)
(* SpecListValidate, processed and validated any number of times in any    *)
(* order, so that validate() is also called twice in a row.                *)

InitRevalidate == InitChain \/ InitListValidate

ProcessAny ==
    \/ field # NoField /\ ProcessChain
    \/ fieldlist # NoFieldList /\ ProcessToValidate

ValidateAny ==
    \/ field # NoField /\ ValidateChain
    \/ fieldlist # NoFieldList /\ ValidateList

NextRevalidate == ProcessAny \/ ValidateAny

SpecRevalidate == InitRevalidate /\ [][NextRevalidate]_vars

---------------------------------------------------------------------------
(* FormField.  The enclosed form has one StringField, "n"; the objects it  *)
(* is fed from and populates have one attribute of that name.  `target`    *)
(* holds the object populate_obj is given: its attribute `attr` (None or   *)
(* an object) and, for every object, the value of the object's "n".        *)

Obj(id) == <<"object", id>>
Objects == {Obj("o1"), Obj("o2"), Obj("o3")}

FormFieldName == <<"f">>
InnerName == <<"n">>

\* the enclosed form's constructor, form_class(formdata=formdata, obj=data,
\* prefix=prefix): its field is processed with the submission and the
\* object's attribute (nothing when there is no object)
InnerForm(prefix, formdata, data, heap) ==
    process(NewField(prefix \o InnerName, "StringField", Default(FALSE, None),
                     <<>>, <<>>, Passes, Passes),
            formdata,
            IF data = None THEN unset_value ELSE heap[data],
            <<>>).self

\* Field.populate_obj(obj, name) for the enclosed form's field, called by
\* the form's populate_obj(obj): setattr(obj, name, self.data)
InnerPopulate(form, obj, heap) == [heap EXCEPT ![obj] = form.data]

\* FormField.__init__: the field as bound, before any call
NewFormField(default) ==
    [ name |-> FormFieldName, separator |-> <<"-">>, default |-> default,
      _obj |-> None, object_data |-> NoAttr,
      has_form |-> FALSE,
      form |-> NewField(InnerName, "StringField", Default(FALSE, None),
                        <<>>, <<>>, Passes, Passes) ]

\* FormField.process(formdata, data) without extra filters
formfield_process(self, formdata, data, heap) ==
    LET value == IF data = unset_value THEN ResolveDefault(self.default) ELSE data
        prefix == self.name \o self.separator
    IN  [self EXCEPT !._obj = IF data = unset_value THEN value ELSE self._obj,
                     !.object_data = value,
                     !.has_form = TRUE,
                     !.form = InnerForm(prefix, formdata, value, heap)]

\* FormField.populate_obj(obj, name): the object afterwards and the
\* exception raised, if any
formfield_populate_obj(self, obj) ==
    LET candidate == IF obj.attr = None THEN self._obj ELSE obj.attr IN
    IF obj.attr = None /\ self._obj = None
    THEN [obj |-> obj, raised |-> "TypeError"]
    ELSE [obj |-> [attr |-> candidate,
                   heap |-> InnerPopulate(self.form, candidate, obj.heap)],
          raised |-> ""]

---------------------------------------------------------------------------
(* SpecFormField: a FormField with and without a default object,          *)
(* processed with and without object data and a submission, then used to  *)
(* populate a target whose attribute is None or an object.                *)

InnerKey == FormFieldName \o <<"-">> \o InnerName

FormSubmissions ==
    { FormdataNone,
      Formdata([k \in {InnerKey} |-> <<"Bob">>]),
      Formdata([k \in {InnerKey} |-> <<"Eve">>]) }

InitFormField ==
    /\ field = NoField
    /\ fieldlist = NoFieldList
    /\ formfield \in { NewFormField(Default(c, d)) :
                         c \in BOOLEAN, d \in {None, Obj("o1")} }
    /\ target \in { [attr |-> a, heap |-> [o \in Objects |-> StrV("Al")]] :
                      a \in {None, Obj("o3")} }
    /\ last = NoCall
    /\ assigned = {}

\* formfield.process(formdata, data)
ProcessFormField ==
    \E formdata \in FormSubmissions, data \in {unset_value, None, Obj("o1"), Obj("o2")} :
        /\ formfield' = formfield_process(formfield, formdata, data, target.heap)
        /\ last' = Call("process", "", FALSE, <<>>, <<>>, <<>>, formdata, data, <<>>)
        /\ UNCHANGED <<field, fieldlist, target, assigned>>

\* formfield.populate_obj(target, "attr")
PopulateObj ==
    /\ formfield.has_form
    /\ \E r \in {formfield_populate_obj(formfield, target)} :
        /\ target' = r.obj
        /\ last' = Call("populate_obj", r.raised, FALSE, <<>>, <<>>, <<>>,
                        FormdataNone, unset_value, <<>>)
        /\ UNCHANGED <<field, fieldlist, formfield, assigned>>

NextFormField == ProcessFormField \/ PopulateObj

SpecFormField == InitFormField /\ [][NextFormField]_vars

---------------------------------------------------------------------------
(* Properties of Field.validate and Field.process *)

IsPrefix(s, t) == Len(s) <= Len(t) /\ SubSeq(t, 1, Len(s)) = s

\* the positions of the validators validate() invoked, in invocation order
InvokedValidators(events) ==
    LET calls == SelectSeq(events, LAMBDA e : e.ev = "validator")
    IN  [n \in 1..Len(calls) |-> calls[n].i]

\* the position of the first validator of the chain that raises
\* StopValidation, or the chain's length when none does
LastToRun(chain) ==
    IF \E i \in 1..Len(chain) : chain[i].raises = "StopValidation"
    THEN CHOOSE i \in 1..Len(chain) :
            /\ chain[i].raises = "StopValidation"
            /\ \A j \in 1..(i - 1) : chain[j].raises # "StopValidation"
    ELSE Len(chain)

\* the messages the first k validators of the chain carry, in order: a
\* ValidationError's message, a StopValidation's message when it is a
\* non-empty one
RECURSIVE MessagesOf(_, _)
MessagesOf(chain, k) ==
    IF k = 0 THEN <<>>
    ELSE MessagesOf(chain, k - 1) \o
         ( IF chain[k].raises = "ValidationError" THEN <<chain[k].args[1]>>
           ELSE IF chain[k].raises = "StopValidation"
                   /\ Len(chain[k].args) > 0 /\ chain[k].args[1] # ""
                THEN <<chain[k].args[1]>>
                ELSE <<>> )

\* C1: validate() invokes the field's validators and then the extra
\* validators in order, up to and including the first one that raises
\* StopValidation and none after it; errors then holds, after the messages
\* of process(), the message of every ValidationError raised and the
\* message of that StopValidation if it carries a non-empty one.
C1_ChainOrderAndHalt ==
    ( /\ last.op = "validate"
      /\ field.pre_validate = Passes /\ field.post_validate = Passes )
    => LET chain == field.validators \o last.extra
           k == LastToRun(chain)
       IN  /\ InvokedValidators(last.events) = [n \in 1..k |-> n]
           /\ field.errors = field.process_errors \o MessagesOf(chain, k)

\* C1 witness: [StopValidation("stop"), ValidationError] ends with
\* errors = ["stop"], the second validator never invoked
C1_Witness ==
    /\ last.op = "validate"
    /\ field.pre_validate = Passes /\ field.post_validate = Passes
    /\ field.validators = <<StopValidation(<<"stop">>), ValidationError("e1")>>
    /\ last.extra = <<ValidationError("e1")>>
    /\ InvokedValidators(last.events) = <<1>>
    /\ field.errors = <<"stop">>

\* C13: pre_validate runs before any validator; when it raises
\* StopValidation no validator is invoked, when it raises ValidationError
\* its message is appended and the chain still runs; post_validate is
\* invoked exactly once, after the chain, told that validation was stopped
\* exactly when pre_validate or a validator raised StopValidation, and a
\* ValidationError it raises is appended to errors.
C13_HooksAroundChain ==
    last.op = "validate"
    => LET pre == field.pre_validate
           post == field.post_validate
           chain == field.validators \o last.extra
           prestop == pre.raises = "StopValidation"
           ran == IF prestop THEN 0 ELSE LastToRun(chain)
           stopped == prestop \/ \E i \in 1..ran : chain[i].raises = "StopValidation"
           ev == last.events
       IN  /\ Len(ev) = ran + 2
           /\ ev[1].ev = "pre_validate"
           /\ \A n \in 1..ran : ev[n + 1] = Event("validator", n, FALSE)
           /\ ev[ran + 2] = Event("post_validate", 0, stopped)
           /\ field.errors =
                 field.process_errors
                 \o MessagesOf(<<pre>>, 1)
                 \o MessagesOf(chain, ran)
                 \o (IF post.raises = "ValidationError" THEN <<post.args[1]>> ELSE <<>>)

\* C13 witness: pre_validate raised ValidationError, the only validator
\* raised StopValidation and post_validate, told so, raised ValidationError
C13_Witness ==
    /\ last.op = "validate"
    /\ field.pre_validate = ValidationError("pre")
    /\ field.validators = <<StopValidation(<<"stop">>)>>
    /\ field.post_validate = ValidationError("post")
    /\ last.events[Len(last.events)] = Event("post_validate", 0, TRUE)
    /\ field.errors = <<"pre", "stop", "post">>

\* C13 witness: pre_validate raised StopValidation, so the validator the
\* field has was not invoked
C13_WitnessPreStopped ==
    /\ last.op = "validate"
    /\ field.pre_validate = StopValidation(<<"prestop">>)
    /\ field.validators = <<ValidationError("e1")>>
    /\ last.events = <<Event("pre_validate", 0, FALSE), Event("post_validate", 0, TRUE)>>
    /\ field.errors = <<"prestop">>

\* C2: validate() leaves process_errors as it was, starts errors from
\* them (they come first in errors) and returns true exactly when errors is
\* empty; so a field with a recorded process error validates to false.
C2_ErrorsSeededFromProcessErrors ==
    [][ last'.op = "validate"
        => /\ field'.process_errors = field.process_errors
           /\ IsPrefix(field.process_errors, field'.errors)
           /\ last'.ret = (field'.errors = <<>>)
           /\ (field.process_errors # <<>> => ~last'.ret) ]_vars

\* C2 witness: a field with a process error and a passing validator has
\* been validated: the result is false and errors is the process errors
C2_Witness ==
    /\ last.op = "validate"
    /\ field.validators = <<Passes>>
    /\ field.process_errors # <<>>
    /\ field.errors = field.process_errors
    /\ ~last.ret

\* C7: process() never raises because a coercion step raised ValueError:
\* every step runs (process_data, process_formdata when a submission is
\* given, the filters), and process_errors holds exactly one message per
\* failed step of this call, none left over from an earlier call.
C7_CoercionFailureIsRecorded ==
    last.op = "process"
    => /\ last.raised = ""
       /\ last.steps = <<"process_data">>
                       \o (IF last.formdata.none THEN <<>> ELSE <<"process_formdata">>)
                       \o <<"filters">>
       /\ Len(field.process_errors) = Len(last.failed)
       /\ ( \E n \in 1..Len(last.failed) : last.failed[n] = "process_data" )
          => field.process_errors[1] = "Not a valid integer value."

\* C7 witness: in a call that follows an earlier round, object-data
\* coercion, formdata coercion and a filter all failed, and all three
\* messages were recorded
C7_Witness ==
    /\ last.op = "process"
    /\ last.failed = <<"process_data", "process_formdata", "filters">>
    /\ Len(field.process_errors) = 3
    /\ field.errors # <<>>

NumericTypes == {"IntegerField", "FloatField", "DecimalField"}

\* the fixed message of a numeric type
NumericMessage(ftype) ==
    CASE ftype = "IntegerField" -> "Not a valid integer value."
      [] ftype = "FloatField" -> "Not a valid float value."
      [] ftype = "DecimalField" -> "Not a valid decimal value."

\* the submitted string is not a number of the field's type
Unparseable(ftype, s) ==
    CASE ftype = "IntegerField" -> s \notin {"7"}
      [] ftype = "FloatField" -> s \notin {"7", "1.5"}
      [] ftype = "DecimalField" -> s \notin {"7", "1.5"}

\* a numeric field without filters and with passing validators has just
\* been processed, without extra filters, with a submission whose first
\* value for the field is not a number of its type
UnparseableSubmissionProcessed ==
    /\ last.op = "process" /\ last.extra = <<>>
    /\ field.ftype \in NumericTypes
    /\ field.filters = <<>>
    /\ \A n \in 1..Len(field.validators) : field.validators[n] = Passes
    /\ ~last.formdata.none
    /\ HasKey(last.formdata, field.name)
    /\ Unparseable(field.ftype, GetList(last.formdata, field.name)[1])

\* C8 as stated: then validate() leaves data = None and errors equal to the
\* type's message alone, whatever the default or object value
C8_AsStated ==
    [][ (UnparseableSubmissionProcessed /\ last'.op = "validate")
        => /\ field'.data = None
           /\ field'.errors = <<NumericMessage(field.ftype)>> ]_vars

\* int() accepts the object value (or the value is None, which
\* IntegerField.process_data does not convert)
IntConvertible(v) == v = None \/ PyInt(v).ok

\* C8 amended: data = None, and errors is the type's message alone for
\* Float and Decimal fields and for an Integer field whose object value (or
\* default) is None or convertible to an integer; for an Integer field whose
\* object value is not convertible the message is there twice.
C8_NumericFailure ==
    [][ (UnparseableSubmissionProcessed /\ last'.op = "validate")
        => /\ field'.data = None
           /\ field'.errors =
                IF field.ftype = "IntegerField" /\ ~IntConvertible(field.object_data)
                THEN <<NumericMessage(field.ftype), NumericMessage(field.ftype)>>
                ELSE <<NumericMessage(field.ftype)>> ]_vars

\* C8 witness: a Float field whose object value is the string "abc" was
\* given an unparseable submission and validated
C8_Witness ==
    /\ last.op = "validate"
    /\ field.ftype = "FloatField"
    /\ field.object_data = StrV("abc")
    /\ field.raw_data = <<"abc", "7">>
    /\ field.filters = <<>> /\ field.validators = <<Passes>>
    /\ field.data = None
    /\ field.errors = <<"Not a valid float value.">>

---------------------------------------------------------------------------
(* Properties of FieldList.process, append_entry and pop_entry *)

Max(a, b) == IF a >= b THEN a ELSE b

\* the integer indices a submission holds for the list: i is submitted when
\* some key is "x-<i>" or starts with "x-<i>-"
SubmittedIndices(formdata) ==
    { i \in 0..9 :
        \E k \in DOMAIN formdata.items :
            k = IndexKey(i) \/ StartsWith(k, IndexKey(i) \o <<"-">>) }

\* the first n elements of a sequence (all of it when it is shorter)
FirstN(seq, n) == SubSeq(seq, 1, IF n < Len(seq) THEN n ELSE Len(seq))

\* the names of the entries, in entry order
EntryNames(entries) == [n \in 1..Len(entries) |-> entries[n].name]

\* process() has just returned from a call with a non-empty submission
SubmissionProcessed ==
    last.op = "process" /\ last.raised = "" /\ FormdataTruthy(last.formdata)

\* the entries a non-empty submission yields, given the cap: one per
\* submitted index in ascending order, named by that index, and after them
\* only the padding up to min_entries
EntriesFollowSubmission(wanted) ==
    /\ Len(fieldlist.entries) = Max(Len(wanted), fieldlist.min_entries)
    /\ FirstN(EntryNames(fieldlist.entries), Len(wanted))
         = [n \in 1..Len(wanted) |-> IndexKey(wanted[n])]

\* C3: after process() with a non-empty submission the entries built from
\* it are one per submitted index, ascending and de-duplicated, cut to the
\* first max_entries of them whenever max_entries is set (not None), each
\* named x-<submitted index>.
C3_AsStated ==
    SubmissionProcessed
    => LET indices == Sorted(SubmittedIndices(last.formdata))
       IN  EntriesFollowSubmission(
               IF fieldlist.max_entries # NoMax
               THEN FirstN(indices, fieldlist.max_entries[1])
               ELSE indices)

\* C3 for every max_entries but 0: the same with the cut applied when
\* max_entries is neither None nor 0
C3_ForNonZeroMax ==
    SubmissionProcessed
    => LET indices == Sorted(SubmittedIndices(last.formdata))
       IN  EntriesFollowSubmission(
               IF Truthy(fieldlist.max_entries)
               THEN FirstN(indices, fieldlist.max_entries[1])
               ELSE indices)

\* C4: whenever max_entries is set (not None), the list never holds more
\* than max_entries entries.
C4_AsStated ==
    fieldlist.max_entries # NoMax
    => Len(fieldlist.entries) <= fieldlist.max_entries[1]

\* C4 for every max_entries but 0, with the assertion: the list never holds
\* more than a non-zero max_entries, and a call that raised AssertionError
\* found the list full
C4_ForNonZeroMax ==
    /\ Truthy(fieldlist.max_entries)
       => Len(fieldlist.entries) <= fieldlist.max_entries[1]
    /\ last.raised = "AssertionError"
       => /\ Truthy(fieldlist.max_entries)
          /\ Len(fieldlist.entries) = fieldlist.max_entries[1]

\* the index of the entry a successful append_entry has just added
AppendedIndex(self) == EntryIndex(self.entries[Len(self.entries)])

\* C5 as stated: append_entry never gives a new entry an index that was
\* assigned before, since the latest process(), to any entry, removed or not.
C5_AsStated ==
    [][ (last'.op = "append_entry" /\ last'.raised = "")
        => AppendedIndex(fieldlist') \notin assigned ]_vars

\* C5 amended: append_entry gives the new entry the index last_index + 1,
\* which is greater than the index of every entry in the list, and
\* pop_entry steps last_index back by one (so the index of a removed entry
\* can be assigned again).
C5_NoIndexSharedByCurrentEntries ==
    [][ /\ (last'.op = "append_entry" /\ last'.raised = "")
           => /\ AppendedIndex(fieldlist') = fieldlist.last_index + 1
              /\ fieldlist'.last_index = fieldlist.last_index + 1
              /\ \A n \in 1..Len(fieldlist.entries) :
                    EntryIndex(fieldlist.entries[n]) < AppendedIndex(fieldlist')
        /\ (last'.op = "pop_entry" /\ last'.raised = "")
           => /\ fieldlist'.last_index = fieldlist.last_index - 1
              /\ \A n \in 1..Len(fieldlist'.entries) :
                    EntryIndex(fieldlist'.entries[n]) <= fieldlist'.last_index ]_vars

\* C5 witness: entries 0, 2, 5 were built, the last was popped and an entry
\* appended: it is entry 5 again
C5_Witness ==
    /\ last.op = "append_entry" /\ last.raised = ""
    /\ EntryIndices(fieldlist.entries) = <<0, 2, 5>>
    /\ assigned = {0, 2, 5}
    /\ fieldlist.last_index = 5

\* the entry was built without object data: its object_data is the entry
\* field's own default
Blank(entry) == entry.object_data = ResolveDefault(fieldlist.unbound_field.default)

\* the number of entries process() builds before padding
BuiltCount(self, formdata, data) ==
    IF FormdataTruthy(formdata)
    THEN Len(Truncated(Sorted(extract_indices(self.name, formdata)), self.max_entries))
    ELSE Len(BaseCollection(self, data))

\* C6: when process() returns on a freshly bound list, it holds at least
\* min_entries entries; the entries after those built from the submission
\* or the data are blank and numbered consecutively after the last built
\* one (from 0 when there is none); with no submission and an empty base
\* collection they are exactly min_entries blank entries 0 .. min_entries-1.
C6_PaddedToMinEntries ==
    [][ (~fieldlist.has_entries /\ last'.op = "process" /\ last'.raised = "")
        => LET es == fieldlist'.entries
               n == fieldlist.min_entries
               b == BuiltCount(fieldlist, last'.formdata, last'.data)
           IN  /\ Len(es) >= n
               /\ Len(es) = Max(b, n)
               /\ \A j \in (b + 1)..Len(es) :
                     /\ Blank(es[j])
                     /\ EntryIndex(es[j]) = IF j = 1 THEN 0 ELSE EntryIndex(es[j - 1]) + 1
               /\ (~FormdataTruthy(last'.formdata) /\ b = 0)
                  => /\ EntryIndices(es) = [j \in 1..n |-> j - 1]
                     /\ \A j \in 1..n : Blank(es[j]) ]_vars

\* C6 witness: min_entries = 3, no submission, no data: three blank entries
\* x-0, x-1, x-2
C6_Witness ==
    /\ last.op = "process" /\ last.raised = ""
    /\ last.formdata = FormdataNone /\ last.data = NoData
    /\ fieldlist.min_entries = 3
    /\ fieldlist.default.value = <<>>
    /\ EntryNames(fieldlist.entries) = <<IndexKey(0), IndexKey(1), IndexKey(2)>>
    /\ \A j \in 1..3 : Blank(fieldlist.entries[j])

---------------------------------------------------------------------------
(* Properties of FieldList.validate *)

\* the positions, in the log of a call, of the events of one kind
EventsOf(events, ev) == {n \in 1..Len(events) : events[n].ev = ev}

\* C10: FieldList.validate validates every entry, in entry order, before it
\* invokes any validator of the list; every entry has then been validated
\* (its errors are its process errors and its validators' messages); errors
\* is the list's own messages alone when no entry has an error, and else
\* one error list per entry, in entry order, followed by the list's own
\* messages; the result is true exactly when errors is empty.
C10_EntriesFirstThenListValidators ==
    last.op = "validate"
    => LET entries == fieldlist.entries
           n == Len(entries)
           chain == fieldlist.validators \o last.extra
           k == LastToRun(chain)
           own == MessagesOf(chain, k)
           messages == [m \in 1..Len(own) |-> ListMessage(own[m])]
           perentry == [m \in 1..n |-> EntryErrors(entries[m].errors)]
       IN  /\ Len(last.events) = n + k
           /\ \A m \in 1..n : last.events[m] = Event("entry", m, FALSE)
           /\ \A m \in 1..k : last.events[n + m] = Event("validator", m, FALSE)
           /\ \A m \in 1..n :
                 entries[m].errors = entries[m].process_errors
                    \o MessagesOf(entries[m].validators, Len(entries[m].validators))
           /\ fieldlist.errors =
                 IF \A m \in 1..n : entries[m].errors = <<>>
                 THEN messages
                 ELSE perentry \o messages
           /\ last.ret = (fieldlist.errors = <<>>)

\* C10 witness: of two entries the first passed and the second failed, and
\* a validator of the list raised: errors is [[], [message], "list"]
C10_Witness ==
    /\ last.op = "validate"
    /\ Len(fieldlist.entries) = 2
    /\ fieldlist.validators = <<ValidationError("list")>>
    /\ last.extra = <<>>
    /\ fieldlist.errors = << EntryErrors(<<>>),
                             EntryErrors(<<"Not a valid integer value.">>),
                             ListMessage("list") >>
    /\ ~last.ret

\* C10 second witness: both entries passed and a validator of the list
\* raised: errors is the list's message alone
C10_WitnessAllPassed ==
    /\ last.op = "validate"
    /\ Len(fieldlist.entries) = 2
    /\ fieldlist.errors = <<ListMessage("list")>>

---------------------------------------------------------------------------
(* Properties of FormField.populate_obj *)

\* C9: populate_obj populates the object in the target's attribute when
\* there is one, otherwise the object data process() was supplied with
\* (given explicitly or taken from the default); it fails only when there
\* is neither, and on success the attribute is the populated object.
C9_AsStated ==
    [][ last'.op = "populate_obj"
        => LET chosen == IF target.attr # None THEN target.attr
                         ELSE formfield.object_data
           IN  IF chosen = None
               THEN last'.raised = "TypeError" /\ target' = target
               ELSE /\ last'.raised = ""
                    /\ target'.attr = chosen
                    /\ target'.heap = [target.heap EXCEPT ![chosen] = formfield.form.data]
      ]_vars

\* C9 with the default in place of the object data: populate_obj falls back
\* on the object the latest process() without data took from the default
C9_FallsBackOnDefaultOnly ==
    [][ last'.op = "populate_obj"
        => LET chosen == IF target.attr # None THEN target.attr ELSE formfield._obj
           IN  IF chosen = None
               THEN last'.raised = "TypeError" /\ target' = target
               ELSE /\ last'.raised = ""
                    /\ target'.attr = chosen
                    /\ target'.heap = [target.heap EXCEPT ![chosen] = formfield.form.data]
      ]_vars

---------------------------------------------------------------------------
(* Properties of the select fields *)

\* every choice of the field can be coerced
ChoicesCoercible(f) ==
    \A n \in 1..Len(f.choices.values) : Coerce(f.coerce, f.choices.values[n]).ok
\* some choice's coerced value equals x
SomeChoiceIs(f, x) ==
    \E n \in 1..Len(f.choices.values) : Coerce(f.coerce, f.choices.values[n]).v = x
\* the latest call was a process() whose submission held exactly one value
\* for the field
OneValueProcessed ==
    /\ last.op = "process"
    /\ ~last.formdata.none
    /\ HasKey(last.formdata, FieldName)
    /\ Len(GetList(last.formdata, FieldName)) = 1
\* a single select with choice validation and a list of coercible choices
ValidatedSelect(f) ==
    /\ f.ftype = "SelectField"
    /\ f.validate_choice
    /\ ~f.choices.null
    /\ ChoicesCoercible(f)

\* C11: for a single select with choice validation and non-null choices,
\* process(submission [v]) then validate() succeeds, with data the coerced
\* v, exactly when some choice's coerced value equals data; otherwise
\* validate() fails with "Not a valid choice." in errors.
C11_AsStated ==
    [][ (OneValueProcessed /\ ValidatedSelect(field) /\ last'.op = "validate")
        => LET v == StrV(GetList(last.formdata, FieldName)[1]) IN
           IF SomeChoiceIs(field, field.data)
           THEN last'.ret /\ Coerce(field.coerce, v).ok
                          /\ field'.data = Coerce(field.coerce, v).v
           ELSE ~last'.ret
                /\ \E n \in 1..Len(field'.errors) : field'.errors[n] = "Not a valid choice."
      ]_vars

\* C11 for a submitted value that the coerce function accepts
C11_WhenSubmittedValueCoerces ==
    [][ (OneValueProcessed /\ ValidatedSelect(field) /\ last'.op = "validate"
         /\ Coerce(field.coerce, StrV(GetList(last.formdata, FieldName)[1])).ok)
        => LET v == StrV(GetList(last.formdata, FieldName)[1]) IN
           IF SomeChoiceIs(field, field.data)
           THEN last'.ret /\ field'.data = Coerce(field.coerce, v).v
           ELSE ~last'.ret
                /\ \E n \in 1..Len(field'.errors) : field'.errors[n] = "Not a valid choice."
      ]_vars

\* a multiple select with choice validation and a list of coercible choices
ValidatedMultiSelect(f) ==
    /\ f.ftype = "SelectMultipleField"
    /\ f.validate_choice
    /\ ~f.choices.null
    /\ ChoicesCoercible(f)
\* the elements of the field's data (none when data is None)
Selected(f) ==
    IF IsList(f.data) THEN {Items(f.data)[n] : n \in 1..Len(Items(f.data))} ELSE {}
\* errors holds the message of SelectMultipleField.pre_validate
NotValidChoicesReported(errors) ==
    \E n \in 1..Len(errors) : errors[n] \in {NotValidChoices(1), NotValidChoices(2)}

\* C16: for a multiple select with choice validation and any coerce
\* function, validate() reports the 'not a valid choice' error exactly when
\* some element of data is not among the coerced values of the choices.
C16_AsStated ==
    (last.op = "validate" /\ field.data # NoAttr /\ ValidatedMultiSelect(field))
    => ( NotValidChoicesReported(field.errors)
         <=> \E d \in Selected(field) : ~SomeChoiceIs(field, d) )

\* C16 for choices whose values are what coerce makes of them
C16_WhenChoicesAreCoercedValues ==
    ( /\ last.op = "validate" /\ field.data # NoAttr /\ ValidatedMultiSelect(field)
      /\ \A n \in 1..Len(field.choices.values) :
            Coerce(field.coerce, field.choices.values[n]).v = field.choices.values[n] )
    => ( NotValidChoicesReported(field.errors)
         <=> \E d \in Selected(field) : ~SomeChoiceIs(field, d) )

---------------------------------------------------------------------------
(* Properties of BooleanField *)

\* C12: after a Boolean field's process() with a submission, data is False
\* when the first submitted value is one of false_values, True when it is
\* any other value, and False when the submission lacks the field's key,
\* whatever the default or the object value.
C12_BooleanFromSubmission ==
    (field.ftype = "BooleanField" /\ last.op = "process" /\ ~last.formdata.none)
    => /\ last.raised = ""
       /\ field.process_errors = <<>>
       /\ field.data =
            IF ~HasKey(last.formdata, FieldName) THEN BoolV(FALSE)
            ELSE IF StrV(GetList(last.formdata, FieldName)[1]) \in field.false_values
                 THEN BoolV(FALSE)
                 ELSE BoolV(TRUE)

\* a submission without the field's key was processed along with a true
\* object value
C12_Witness ==
    /\ field.ftype = "BooleanField"
    /\ last.op = "process"
    /\ ~last.formdata.none
    /\ ~HasKey(last.formdata, FieldName)
    /\ last.data = BoolV(TRUE)
    /\ field.object_data = BoolV(TRUE)
    /\ field.data = BoolV(FALSE)

---------------------------------------------------------------------------
(* Invariants of the indices of a FieldList *)

\* C19: in every state reached from a freshly bound list by process(),
\* append_entry() and pop_entry() calls, the indices of the current entries
\* ascend strictly in entry order (so the entries' names differ pairwise)
\* and last_index is at least the index of every current entry.
C19_IndicesAscendBelowLastIndex ==
    LET idx == EntryIndices(fieldlist.entries) IN
    /\ \A n \in 1..(Len(idx) - 1) : idx[n] < idx[n + 1]
    /\ \A n \in 1..Len(idx) : idx[n] <= fieldlist.last_index
    /\ \A m, n \in 1..Len(idx) :
          m # n => fieldlist.entries[m].name # fieldlist.entries[n].name

\* C19 witness: after a submission with gaps, a pop_entry() and an
\* append_entry(), the entries are 0, 2 and 5 again
C19_Witness ==
    /\ last.op = "append_entry" /\ last.raised = ""
    /\ EntryIndices(fieldlist.entries) = <<0, 2, 5>>
    /\ fieldlist.last_index = 5

---------------------------------------------------------------------------
(* Properties of the base collection of FieldList.process *)

\* process() returned having taken `base` as its base collection: it is the
\* list's object_data and, without a submission, its elements are the
\* object values of the first entries, the rest being padding
BuiltFrom(base) ==
    /\ fieldlist.object_data = base
    /\ ~FormdataTruthy(last.formdata)
       => /\ Len(fieldlist.entries) = Max(Len(base), fieldlist.min_entries)
          /\ \A n \in 1..Len(base) : fieldlist.entries[n].object_data = base[n]

\* C17: the base collection of FieldList.process is the default (called if
\* callable) only when no object data is given; given data, an empty
\* collection included, is itself the base collection and the default
\* contributes no entries.
C17_AsStated ==
    (last.op = "process" /\ last.raised = "")
    => BuiltFrom(IF last.data.given THEN last.data.items
                 ELSE ResolveDefault(fieldlist.default))

\* C17 as the code has it: the default is the base collection when no
\* object data is given and also when the given collection is empty; a
\* non-empty given collection is itself the base collection.
C17_DefaultUnlessNonEmptyData ==
    (last.op = "process" /\ last.raised = "")
    => BuiltFrom(IF last.data.given /\ last.data.items # <<>> THEN last.data.items
                 ELSE ResolveDefault(fieldlist.default))

\* C17 witness: an empty collection was given to a list whose default has
\* one element, and the list has one entry, built from the default
C17_Witness ==
    /\ last.op = "process" /\ last.raised = ""
    /\ last.formdata.none
    /\ last.data = Data(<<>>)
    /\ fieldlist.min_entries = 0
    /\ ResolveDefault(fieldlist.default) = <<IntV("7")>>
    /\ Len(fieldlist.entries) = 1
    /\ fieldlist.entries[1].object_data = IntV("7")

---------------------------------------------------------------------------
(* Properties of FieldList._extract_indices *)

\* the key is the list's name, "-", decimal digits, and then its end or
\* another "-"
IsEntryKey(k, name) ==
    /\ StartsWith(k, name \o <<"-">>)
    /\ IsDigit(BeforeHyphen(SliceFrom(k, Len(name) + 1)))
\* the indices of the keys of that form
EntryKeyIndices(formdata, name) ==
    { IntOfDigits(BeforeHyphen(SliceFrom(k, Len(name) + 1))) :
        k \in {kk \in DOMAIN formdata.items : IsEntryKey(kk, name)} }

\* C14: an index is extracted from a submission key only when the key is
\* the list's name, "-", the digits of the index, then the end of the key
\* or another "-"; a key of another field whose name only begins with the
\* list's name yields no index and no entry.
C14_AsStated ==
    ( /\ last.op = "process" /\ last.raised = ""
      /\ FormdataTruthy(last.formdata)
      /\ fieldlist.min_entries = 0 )
    => IndexSet(fieldlist.entries) \subseteq EntryKeyIndices(last.formdata, ListName)

\* C14 for submissions in which the list's name is always followed by "-"
C14_WhenNameIsFollowedByHyphen ==
    ( /\ last.op = "process" /\ last.raised = ""
      /\ FormdataTruthy(last.formdata)
      /\ fieldlist.min_entries = 0
      /\ \A k \in DOMAIN last.formdata.items :
            StartsWith(k, ListName) => StartsWith(k, ListName \o <<"-">>) )
    => IndexSet(fieldlist.entries) \subseteq EntryKeyIndices(last.formdata, ListName)

---------------------------------------------------------------------------
(* Properties of the filters *)

\* what the first k filters of the chain make of x, one after the other
\* (when each of them returns)
RECURSIVE Filtered(_, _, _)
Filtered(chain, k, x) ==
    IF k = 0 THEN x ELSE ApplyFilter(chain[k], Filtered(chain, k - 1, x)).v

\* the filter at position k raises on what the filters before it produce
RaisesAt(chain, k, x) == ~ApplyFilter(chain[k], Filtered(chain, k - 1, x)).ok

\* the position of the first filter of the chain that raises, or one past
\* the chain's end when none does
FirstToRaise(chain, x) ==
    IF \E k \in 1..Len(chain) : RaisesAt(chain, k, x)
    THEN CHOOSE k \in 1..Len(chain) :
            RaisesAt(chain, k, x) /\ \A j \in 1..(k - 1) : ~RaisesAt(chain, j, x)
    ELSE Len(chain) + 1

\* the value of data when the filters start: what the coercion steps of a
\* process(formdata, data) call leave
Unfiltered(self, formdata, data) ==
    LET value == IF data = unset_value THEN ResolveDefault(self.default) ELSE data
        pd == ProcessData(self, value)
    IN  IF formdata.none THEN pd.data
        ELSE ProcessFormdata(self, IF HasKey(formdata, self.name)
                                   THEN GetList(formdata, self.name) ELSE <<>>,
                             pd.data).data

\* C18: process() applies the field's filters and then the extra filters to
\* data, in that order, each on the previous one's result; when a filter
\* raises ValueError its message is recorded in process_errors, no later
\* filter is applied and data keeps what the last successful filter made.
C18_FiltersInOrder ==
    [][ last'.op = "process"
        => LET chain == field.filters \o last'.extra
               x == Unfiltered(field, last'.formdata, last'.data)
               k == FirstToRaise(chain, x)
           IN  /\ field'.data = Filtered(chain, k - 1, x)
               /\ IF k <= Len(chain)
                  THEN /\ last'.failed = <<"filters">>
                       /\ field'.process_errors =
                            <<ApplyFilter(chain[k], Filtered(chain, k - 1, x)).args[1]>>
                  ELSE last'.failed = <<>> /\ field'.process_errors = <<>>
      ]_vars

\* C18 witness: the field's filter rewrote "abc" to "ABC" and the extra
\* filter rejected "ABC": data keeps "ABC" and the message is recorded
C18_Witness ==
    /\ last.op = "process"
    /\ field.filters = <<"upper">>
    /\ last.extra = <<"reject_upper">>
    /\ field.raw_data = <<"abc">>
    /\ field.data = StrV("ABC")
    /\ field.process_errors = <<"No capitals.">>

\* C18 witness: the order decides: dropping "abc" and then requiring a
\* value fails, with data None
C18_WitnessOrder ==
    /\ last.op = "process"
    /\ field.filters = <<"none_if_abc", "reject_none">>
    /\ last.extra = <<"upper">>
    /\ field.raw_data = <<"abc">>
    /\ field.data = None
    /\ field.process_errors = <<"A value is required.">>

---------------------------------------------------------------------------
(* Properties of formdata coercion *)

\* the fixed message of the type's formdata coercion
FormdataMessage(ftype) ==
    CASE ftype = "IntegerField" -> "Not a valid integer value."
      [] ftype = "FloatField" -> "Not a valid float value."
      [] ftype = "DecimalField" -> "Not a valid decimal value."
      [] ftype = "DateTimeField" -> "Not a valid datetime value."
      [] ftype = "DateField" -> "Not a valid date value."
      [] ftype = "SelectField" -> "Invalid Choice: could not coerce."
      [] OTHER -> ""

\* the latest call was a process() in which formdata coercion failed
FormdataCoercionFailed ==
    /\ last.op = "process"
    /\ \E n \in 1..Len(last.failed) : last.failed[n] = "process_formdata"

\* C15: for every scalar type of the coercion table, when formdata
\* coercion of the submitted value fails, data is None after process() (not
\* what object-data coercion left) and the type's fixed message is in
\* process_errors.
C15_AsStated ==
    FormdataCoercionFailed
    => /\ field.data = None
       /\ \E n \in 1..Len(field.process_errors) :
             field.process_errors[n] = FormdataMessage(field.ftype)

\* C15 for the types other than the single select
C15_ExceptSelect ==
    (FormdataCoercionFailed /\ field.ftype # "SelectField")
    => /\ field.data = None
       /\ \E n \in 1..Len(field.process_errors) :
             field.process_errors[n] = FormdataMessage(field.ftype)

\* the select records its message but keeps the object value in data
C15_SelectKeepsObjectValue ==
    /\ FormdataCoercionFailed
    /\ field.ftype = "SelectField"
    /\ field.data = IntV("7")
    /\ field.process_errors = <<"Invalid Choice: could not coerce.">>

---------------------------------------------------------------------------
(* Calling validate() twice *)

\* the errors of each entry of the list
ErrorsOfEntries(list) == [n \in 1..Len(list.entries) |-> list.entries[n].errors]

\* C20: a validate() that repeats the validate() before it, with the same
\* extra validators and no process() in between, leaves the errors of the
\* field (of the list and of each of its entries) as the first call left
\* them and returns what the first call returned
C20_ValidateIsIdempotent ==
    [][ (last'.op = "validate" /\ last'.again) =>
           /\ last'.ret = last.ret
           /\ last'.raised = last.raised
           /\ field # NoField => field'.errors = field.errors
           /\ fieldlist # NoFieldList =>
                 /\ fieldlist'.errors = fieldlist.errors
                 /\ ErrorsOfEntries(fieldlist') = ErrorsOfEntries(fieldlist) ]_vars

\* a field whose process() failed and whose validator raises is validated a
\* second time: each message is there once
C20_Witness ==
    /\ last.op = "validate" /\ last.again /\ ~last.ret
    /\ field # NoField
    /\ field.process_errors # <<>>
    /\ Len(field.errors) = Len(field.process_errors) + 1

\* a list with a failing entry and a failing validator of its own is
\* validated a second time
C20_WitnessList ==
    /\ last.op = "validate" /\ last.again /\ ~last.ret
    /\ fieldlist # NoFieldList
    /\ Len(fieldlist.entries) = 2
    /\ Len(fieldlist.errors) = 3
    /\ \E n \in 1..2 : Len(fieldlist.entries[n].errors) = 1

---------------------------------------------------------------------------
(* Rejected append_entry() and pop_entry() *)

\* the list holds as many entries as max_entries allows
HoldsMaxEntries(list) ==
    /\ list.has_entries
    /\ list.max_entries # NoMax
    /\ Len(list.entries) = list.max_entries[1]

\* the list has been processed and holds no entry
HoldsNoEntries(list) == list.has_entries /\ list.entries = <<>>

\* the call the step makes fails and leaves entries and last_index alone
Rejected(op) ==
    last'.op = op =>
        /\ last'.raised # ""
        /\ fieldlist'.entries = fieldlist.entries
        /\ fieldlist'.last_index = fieldlist.last_index

\* C21: append_entry() on a list that already holds max_entries entries fails
\* with entries and last_index as before the call, and pop_entry() on a list
\* with no entries fails with entries and last_index as before the call
C21_AsStated ==
    [][ /\ HoldsMaxEntries(fieldlist) => Rejected("append_entry")
        /\ HoldsNoEntries(fieldlist) => Rejected("pop_entry") ]_vars

\* the same for every list whose max_entries is not 0
C21_ForNonZeroMax ==
    [][ /\ (HoldsMaxEntries(fieldlist) /\ fieldlist.max_entries # <<0>>)
              => Rejected("append_entry")
        /\ HoldsNoEntries(fieldlist) => Rejected("pop_entry") ]_vars

\* a list with max_entries=3 holding entries 0, 2 and 5 has refused an
\* append_entry()
C21_AppendRejected ==
    /\ last.op = "append_entry" /\ last.raised = "AssertionError"
    /\ fieldlist.max_entries = <<3>>
    /\ EntryIndices(fieldlist.entries) = <<0, 2, 5>>
    /\ fieldlist.last_index = 5

\* an emptied list has refused a pop_entry(); last_index stays where the
\* earlier pop_entry() calls left it
C21_PopRejected ==
    /\ last.op = "pop_entry" /\ last.raised = "IndexError"
    /\ fieldlist.entries = <<>>
    /\ fieldlist.last_index >= 0

\* a list with max_entries=0 and no entries has accepted an append_entry()
C21_AppendAcceptedAtZero ==
    /\ last.op = "append_entry" /\ last.raised = ""
    /\ fieldlist.max_entries = <<0>>
    /\ Len(fieldlist.entries) = 1

=============================================================================
